---- MODULE Spec2Model ----
(***************************************************************************)
(* The in-memory upload/download service of api/index.js (Express +       *)
(* multer) and of its earlier variant (src/unnamed/part_000).              *)
(*                                                                         *)
(* A request runs the middleware chain of the variant that is deployed     *)
(* (body parsers, CORS, multer, the route handler, the error middleware,   *)
(* the 404 handler) in one atomic step: every handler of the source is     *)
(* synchronous, and Node runs a callback to completion.  What stays        *)
(* asynchronous is the socket draining the Buffer handed to res.send; it   *)
(* is modelled chunk by chunk in `pending`.                                *)
(*                                                                         *)
(* A Buffer is a run-length encoded byte string, a sequence of             *)
(* [byte, count] runs, so that the real size limits (20MB, 25MB) apply.    *)
(***************************************************************************)
EXTENDS Integers, Sequences, FiniteSets, TLC

\* ------------------------------------------------------------ bounds
\* file parts of one multipart body
MaxParts == 2

\* ------------------------------------------------------------ constants
\* index.js: multer limits.fileSize and the handler's own size check
FileSizeLimit == 20 * 1024 * 1024
\* index.js: multer limits.files
FilesLimit == 5
\* index.js: express.json / express.urlencoded limit '25mb'
BodyLimit == 25 * 1024 * 1024
\* part_000: multer limits.fileSize
FileSizeLimit0 == 25 * 1024 * 1024
\* part_000: express.json() without options, body-parser's default '100kb'
BodyLimit0 == 100 * 1024

\* ------------------------------------------------------------ buffers
RECURSIVE BufLen(_)
\* Buffer.length of a run-length encoded byte string
BufLen(buf) ==
  IF buf = <<>> THEN 0 ELSE Head(buf).count + BufLen(Tail(buf))

Run(b, n) == [byte |-> b, count |-> n]

\* the 10 bytes "aaaabbbbbb"
SmallBuf == <<Run(97, 4), Run(98, 6)>>
\* exactly 20MB of zero bytes
FullBuf == <<Run(0, FileSizeLimit)>>
\* one byte more than 25MB
HugeBuf == <<Run(0, FileSizeLimit0), Run(1, 1)>>

\* ------------------------------------------------------------ inputs
\* values crypto.randomBytes(16).toString('hex') may return
Ids ==
  {"000102030405060708090a0b0c0d0e0f", "f0e0d0c0b0a090807060504030201000"}

\* the reading of the clock, as new Date().toISOString() prints it; the
\* requests are followed at one instant, no handler compares dates
Timestamps == {"2024-01-01T00:00:00.000Z"}

\* the host and x-forwarded-* headers of a request
HeaderSets ==
  { [host |-> "localhost:3000", xfhost |-> "", xfproto |-> ""],
    [host |-> "10.0.0.7", xfhost |-> "cdn.example.com", xfproto |-> "http"] }

\* file parts of a multipart body, as busboy hands them to multer
FileParts ==
  { [fieldname |-> "file", originalname |-> "a.txt",
     mimetype |-> "text/plain", buffer |-> SmallBuf],
    [fieldname |-> "file", originalname |-> "zero.bin",
     mimetype |-> "application/octet-stream", buffer |-> FullBuf],
    [fieldname |-> "file", originalname |-> "huge.bin",
     mimetype |-> "application/octet-stream", buffer |-> HugeBuf],
    [fieldname |-> "avatar", originalname |-> "a.txt",
     mimetype |-> "text/plain", buffer |-> SmallBuf] }

PartSeqs == UNION { [1..n -> FileParts] : n \in 0..MaxParts }

\* request bodies: none, JSON (well-formed or not, small or oversized),
\* urlencoded (small or oversized), multipart
PlainBodies ==
  { [ctype |-> "none", len |-> 0, ok |-> TRUE, parts |-> <<>>],
    [ctype |-> "application/json", len |-> 2, ok |-> TRUE, parts |-> <<>>],
    [ctype |-> "application/json", len |-> 1, ok |-> FALSE, parts |-> <<>>],
    [ctype |-> "application/json", len |-> BodyLimit + 1, ok |-> TRUE,
     parts |-> <<>>],
    [ctype |-> "application/x-www-form-urlencoded", len |-> 3, ok |-> TRUE,
     parts |-> <<>>],
    [ctype |-> "application/x-www-form-urlencoded", len |-> BodyLimit + 1,
     ok |-> TRUE, parts |-> <<>>] }

MultipartBodies ==
  { [ctype |-> "multipart/form-data", len |-> 0, ok |-> TRUE, parts |-> ps] :
      ps \in PartSeqs }

Bodies == PlainBodies \cup MultipartBodies

\* a request without a body
EmptyBody == [ctype |-> "none", len |-> 0, ok |-> TRUE, parts |-> <<>>]

\* the bodies sent with a request line: GET and DELETE requests carry none
BodiesOf(line) == IF line.method = "POST" THEN PlainBodies ELSE {EmptyBody}

\* the request lines the clients send: the routes, and some that match none
RequestLines ==
  { [method |-> "GET", path |-> "/api/health"],
    [method |-> "GET", path |-> "/api"],
    [method |-> "POST", path |-> "/api/upload"],
    [method |-> "GET", path |-> "/api/file/:fileId"],
    [method |-> "GET", path |-> "/api/info/:fileId"],
    [method |-> "GET", path |-> "/api/files"],
    [method |-> "DELETE", path |-> "/api/file/:fileId"],
    [method |-> "POST", path |-> "/api/files"],
    [method |-> "GET", path |-> "/favicon.ico"] }

\* ------------------------------------------------------------ optional values
\* a value that may be undefined is a sequence of at most one element
None == <<>>
Some(x) == <<x>>

\* ------------------------------------------------------------ the Map
\* A JavaScript Map keeps its entries in insertion order; the store is the
\* sequence of its values, each under the key value.id.
MapKeys(db) == { db[k].id : k \in DOMAIN db }

MapHas(db, key) == key \in MapKeys(db)

\* Map.prototype.get: undefined when the key is absent
MapGet(db, key) ==
  IF MapHas(db, key)
  THEN Some(db[CHOOSE k \in DOMAIN db : db[k].id = key])
  ELSE None

\* Map.prototype.set: an existing key keeps its place and gets the new value
MapSet(db, key, value) ==
  IF MapHas(db, key)
  THEN [k \in DOMAIN db |-> IF db[k].id = key THEN value ELSE db[k]]
  ELSE Append(db, value)

\* a delete that removes nothing
MapRemoveNothing(db, key) == db

\* a delete that clears the Map
MapRemoveAll(db, key) == IF MapHas(db, key) THEN <<>> ELSE db

\* the Map without the entry of key
MapRemove(db, key) == SelectSeq(db, LAMBDA v : v.id # key)

\* Map.prototype.delete: true iff an entry was removed
MapDelete(db, key) == [deleted |-> MapHas(db, key), db |-> MapRemove(db, key)]

\* Array.from(map.values())
MapValues(db) == db

\* ------------------------------------------------------------ responses
NoHeaders == [h \in {} |-> ""]

\* index.js 13-18: the CORS middleware
CorsHeaders ==
  ("Access-Control-Allow-Origin" :> "*") @@
  ("Access-Control-Allow-Methods" :> "GET, POST, PUT, DELETE, OPTIONS") @@
  ("Access-Control-Allow-Headers" :> "Content-Type, Authorization")

\* res.status(status).json(body), on top of the headers already set
JsonResponse(status, headers, body) ==
  [status |-> status, kind |-> "json",
   headers |-> ("Content-Type" :> "application/json; charset=utf-8") @@ headers,
   json |-> body, body |-> <<>>]

\* res.send(buffer): Express keeps a Content-Type already set and sets
\* Content-Length to the length of the Buffer
SendResponse(headers, buffer) ==
  [status |-> 200, kind |-> "buffer",
   headers |-> ("Content-Length" :> BufLen(buffer)) @@ headers,
   json |-> <<>>, body |-> buffer]

\* Express's final handler: an HTML page, no header of the application
FinalResponse(status, headers) ==
  [status |-> status, kind |-> "html",
   headers |-> ("Content-Type" :> "text/html; charset=utf-8") @@ headers,
   json |-> <<>>, body |-> <<>>]

\* the value of the "error" member of a JSON body, "" when there is none
ErrorCode(resp) ==
  IF resp.kind = "json" /\ "error" \in DOMAIN resp.json
  THEN resp.json.error ELSE ""

\* ------------------------------------------------------------ middleware
NoError == [name |-> "", code |-> "", status |-> 0]

\* body-parser's json(): reads a body of its content type up to the limit,
\* then parses it
JsonParser(body, limit) ==
  IF body.ctype # "application/json" \/ body.len = 0 THEN NoError
  ELSE IF body.len > limit
  THEN [name |-> "PayloadTooLargeError", code |-> "entity.too.large",
        status |-> 413]
  ELSE IF ~body.ok
  THEN [name |-> "SyntaxError", code |-> "entity.parse.failed", status |-> 400]
  ELSE NoError

\* body-parser's urlencoded()
UrlencodedParser(body, limit) ==
  IF body.ctype # "application/x-www-form-urlencoded" \/ body.len = 0
  THEN NoError
  ELSE IF body.len > limit
  THEN [name |-> "PayloadTooLargeError", code |-> "entity.too.large",
        status |-> 413]
  ELSE NoError

\* index.js 9-10: the error the two body parsers pass to next(), if any
BodyParsers(body) ==
  IF JsonParser(body, BodyLimit) # NoError THEN JsonParser(body, BodyLimit)
  ELSE UrlencodedParser(body, BodyLimit)

MulterError(code) == [name |-> "MulterError", code |-> code, status |-> 0]

RECURSIVE MulterParts(_, _, _, _, _)
\* multer reads the file parts in order: a part over the files limit, a part
\* under an unexpected field (or a second one under the expected field), a
\* part larger than fileSize each abort the request with a MulterError
MulterParts(parts, k, fileSize, maxFiles, file) ==
  IF k > Len(parts) THEN [err |-> NoError, file |-> file]
  ELSE IF maxFiles # None /\ k > maxFiles[1]
  THEN [err |-> MulterError("LIMIT_FILE_COUNT"), file |-> None]
  ELSE IF parts[k].fieldname # "file" \/ file # None
  THEN [err |-> MulterError("LIMIT_UNEXPECTED_FILE"), file |-> None]
  ELSE IF BufLen(parts[k].buffer) > fileSize
  THEN [err |-> MulterError("LIMIT_FILE_SIZE"), file |-> None]
  ELSE MulterParts(parts, k + 1, fileSize, maxFiles,
         Some([fieldname |-> parts[k].fieldname,
               originalname |-> parts[k].originalname,
               mimetype |-> parts[k].mimetype,
               size |-> BufLen(parts[k].buffer),
               buffer |-> parts[k].buffer]))

\* upload.single('file') with memoryStorage: req.file, or the error passed on;
\* a body that is not multipart is left alone
UploadSingle(body, fileSize, maxFiles) ==
  IF body.ctype # "multipart/form-data" THEN [err |-> NoError, file |-> None]
  ELSE MulterParts(body.parts, 1, fileSize, maxFiles, None)

\* index.js 236-252: the error handling middleware
ErrorMiddleware(error, headers) ==
  IF error.name = "MulterError" /\ error.code = "LIMIT_FILE_SIZE"
  THEN JsonResponse(400, headers,
         [error |-> "FILE_TOO_LARGE", message |-> "File terlalu besar"])
  ELSE JsonResponse(500, headers,
         [error |-> "INTERNAL_SERVER_ERROR",
          message |-> "Terjadi kesalahan internal"])

\* index.js 255-260: the 404 handler
NotFoundHandler(headers) ==
  JsonResponse(404, headers,
    [error |-> "ENDPOINT_NOT_FOUND", message |-> "Endpoint tidak ditemukan"])

\* ------------------------------------------------------------ index.js
\* index.js 34-38: getBaseUrl
getBaseUrl(headers) ==
  LET host == IF headers.xfhost # "" THEN headers.xfhost ELSE headers.host
      protocol == IF headers.xfproto # "" THEN headers.xfproto ELSE "https"
  IN protocol \o "://" \o host

\* index.js 90-99: the record the upload stores
FileInfo(file, fileId, baseUrl, now) ==
  [id |-> fileId,
   originalName |->
     IF file.originalname # "" THEN file.originalname ELSE "unknown",
   filename |-> fileId,
   mimetype |->
     IF file.mimetype # "" THEN file.mimetype ELSE "application/octet-stream",
   size |-> file.size,
   uploadDate |-> now,
   buffer |-> file.buffer,
   url |-> baseUrl \o "/api/file/" \o fileId]

\* index.js 109-116: the members of the upload response
UploadData(fileInfo) ==
  [id |-> fileInfo.id, originalName |-> fileInfo.originalName,
   mimetype |-> fileInfo.mimetype, size |-> fileInfo.size,
   url |-> fileInfo.url, uploadDate |-> fileInfo.uploadDate]

\* const { buffer, ...rest } = fileInfo
WithoutBuffer(fileInfo) ==
  [k \in DOMAIN fileInfo \ {"buffer"} |-> fileInfo[k]]

\* index.js 69-127: the upload handler, after multer has set req.file
UploadHandler(reqFile, headers, fileId, now, db, resHeaders) ==
  IF reqFile = None
  THEN [resp |-> JsonResponse(400, resHeaders,
                   [error |-> "NO_FILE",
                    message |-> "Tidak ada file yang diupload"]),
        db |-> db]
  ELSE IF reqFile[1].size > FileSizeLimit
  THEN [resp |-> JsonResponse(400, resHeaders,
                   [error |-> "FILE_TOO_LARGE",
                    message |-> "File terlalu besar. Maksimal 20MB"]),
        db |-> db]
  ELSE LET fileInfo == FileInfo(reqFile[1], fileId, getBaseUrl(headers), now)
       IN [resp |-> JsonResponse(200, resHeaders,
                      [success |-> TRUE,
                       message |-> "File berhasil diupload",
                       data |-> UploadData(fileInfo)]),
           db |-> MapSet(db, fileId, fileInfo)]

\* the headers of a served file, with a generic Content-Type in place of the
\* stored mimetype
FileHeadersGeneric(fileInfo) ==
  ("Content-Type" :> "application/octet-stream") @@
  ("Content-Length" :> fileInfo.size) @@
  ("Content-Disposition" :>
     "inline; filename=\"" \o fileInfo.originalName \o "\"") @@
  ("Cache-Control" :> "public, max-age=3600") @@
  ("Access-Control-Expose-Headers" :> "Content-Type, Content-Length")

\* index.js 142-147: the headers of a served file
FileHeaders(fileInfo) ==
  ("Content-Type" :> fileInfo.mimetype) @@
  ("Content-Length" :> fileInfo.size) @@
  ("Content-Disposition" :>
     "inline; filename=\"" \o fileInfo.originalName \o "\"") @@
  ("Cache-Control" :> "public, max-age=3600") @@
  ("Access-Control-Expose-Headers" :> "Content-Type, Content-Length")

\* index.js 130-159: the file handler
FileHandler(fileId, db, resHeaders) ==
  LET fileInfo == MapGet(db, fileId)
  IN IF fileInfo = None
     THEN JsonResponse(404, resHeaders,
            [error |-> "FILE_NOT_FOUND", message |-> "File tidak ditemukan"])
     ELSE SendResponse(FileHeaders(fileInfo[1]) @@ resHeaders,
                       fileInfo[1].buffer)

\* the info handler without its check of the lookup: destructuring undefined
\* throws and the catch block answers
InfoHandlerUnchecked(fileId, db, resHeaders) ==
  LET fileInfo == MapGet(db, fileId)
  IN IF fileInfo = None
     THEN JsonResponse(500, resHeaders,
            [error |-> "INFO_RETRIEVAL_FAILED",
             message |-> "Gagal mengambil info file"])
     ELSE JsonResponse(200, resHeaders,
            [success |-> TRUE, data |-> WithoutBuffer(fileInfo[1])])

\* index.js 162-187: the info handler
InfoHandler(fileId, db, resHeaders) ==
  LET fileInfo == MapGet(db, fileId)
  IN IF fileInfo = None
     THEN JsonResponse(404, resHeaders,
            [error |-> "FILE_NOT_FOUND", message |-> "File tidak ditemukan"])
     ELSE JsonResponse(200, resHeaders,
            [success |-> TRUE, data |-> WithoutBuffer(fileInfo[1])])

\* the list handler with a loop that stops one value early
FilesHandlerShort(db, resHeaders) ==
  LET values == MapValues(db)
      files == [k \in 1..(Len(values) - 1) |-> WithoutBuffer(values[k])]
  IN JsonResponse(200, resHeaders,
       [success |-> TRUE, count |-> Len(files), data |-> files])

\* index.js 190-208: the list handler
FilesHandler(db, resHeaders) ==
  LET values == MapValues(db)
      files == [k \in DOMAIN values |-> WithoutBuffer(values[k])]
  IN JsonResponse(200, resHeaders,
       [success |-> TRUE, count |-> Len(files), data |-> files])

\* index.js 211-233: the delete handler
DeleteHandler(fileId, db, resHeaders) ==
  LET r == MapDelete(db, fileId)
  IN IF r.deleted
     THEN [resp |-> JsonResponse(200, resHeaders,
                      [success |-> TRUE, message |-> "File berhasil dihapus"]),
           db |-> r.db]
     ELSE [resp |-> JsonResponse(404, resHeaders,
                      [error |-> "FILE_NOT_FOUND",
                       message |-> "File tidak ditemukan"]),
           db |-> r.db]

\* index.js 41-48: the health handler
HealthHandler(now, resHeaders) ==
  JsonResponse(200, resHeaders,
    [status |-> "OK", timestamp |-> now, platform |-> "Vercel",
     memory |-> "process.memoryUsage()"])

\* index.js 51-66: the root handler
RootHandler(resHeaders) ==
  JsonResponse(200, resHeaders,
    [message |-> "CDN Backend API is running on Vercel!",
     endpoints |-> [upload |-> "POST /api/upload",
                    getFile |-> "GET /api/file/:id",
                    fileInfo |-> "GET /api/info/:id",
                    listFiles |-> "GET /api/files",
                    health |-> "GET /api/health"],
     limits |-> [maxFileSize |-> "20MB", maxFiles |-> "5 per request"]])

\* the routes index.js registers
Routes ==
  { [method |-> "GET", path |-> "/api/health"],
    [method |-> "GET", path |-> "/api"],
    [method |-> "POST", path |-> "/api/upload"],
    [method |-> "GET", path |-> "/api/file/:fileId"],
    [method |-> "GET", path |-> "/api/info/:fileId"],
    [method |-> "GET", path |-> "/api/files"],
    [method |-> "DELETE", path |-> "/api/file/:fileId"] }

\* ------------------------------------------------------------ part_000
\* part_000 31-35: generateFileUrl
generateFileUrl(headers, filename) ==
  LET protocol == IF headers.xfproto # "" THEN headers.xfproto ELSE "https"
      host == IF headers.xfhost # "" THEN headers.xfhost ELSE headers.host
  IN protocol \o "://" \o host \o "/api/file/" \o filename

\* part_000 45-54: the record the upload stores
FileInfo0(file, fileId, headers, now) ==
  [id |-> fileId,
   originalName |-> file.originalname,
   filename |-> fileId,
   mimetype |-> file.mimetype,
   size |-> file.size,
   uploadDate |-> now,
   buffer |-> file.buffer,
   url |-> generateFileUrl(headers, fileId)]

\* part_000 38-66: the upload handler; its response carries the whole record
UploadHandler0(reqFile, headers, fileId, now, db) ==
  IF reqFile = None
  THEN [resp |-> JsonResponse(400, NoHeaders, [error |-> "No file uploaded"]),
        db |-> db]
  ELSE LET fileInfo == FileInfo0(reqFile[1], fileId, headers, now)
       IN [resp |-> JsonResponse(200, NoHeaders,
                      [success |-> TRUE,
                       message |-> "File uploaded successfully",
                       data |-> fileInfo]),
           db |-> MapSet(db, fileId, fileInfo)]

\* part_000 78-82: the headers of a served file
FileHeaders0(fileInfo) ==
  ("Content-Type" :> fileInfo.mimetype) @@
  ("Content-Disposition" :>
     "inline; filename=\"" \o fileInfo.originalName \o "\"") @@
  ("Cache-Control" :> "public, max-age=3600") @@
  ("Access-Control-Allow-Origin" :> "*")

\* part_000 69-89: the file handler
FileHandler0(fileId, db) ==
  LET fileInfo == MapGet(db, fileId)
  IN IF fileInfo = None
     THEN JsonResponse(404, NoHeaders, [error |-> "File not found"])
     ELSE SendResponse(FileHeaders0(fileInfo[1]), fileInfo[1].buffer)

\* part_000 92-110: the info handler
InfoHandler0(fileId, db) ==
  LET fileInfo == MapGet(db, fileId)
  IN IF fileInfo = None
     THEN JsonResponse(404, NoHeaders, [error |-> "File not found"])
     ELSE JsonResponse(200, NoHeaders,
            [success |-> TRUE, data |-> WithoutBuffer(fileInfo[1])])

\* part_000 113-127: the list handler
FilesHandler0(db) ==
  LET values == MapValues(db)
      files == [k \in DOMAIN values |-> WithoutBuffer(values[k])]
  IN JsonResponse(200, NoHeaders, [success |-> TRUE, data |-> files])

\* part_000 130-137: the health handler
HealthHandler0(now, db) ==
  JsonResponse(200, NoHeaders,
    [status |-> "OK", timestamp |-> now, filesCount |-> Len(db),
     environment |-> "process.env.NODE_ENV"])

\* part_000 140-151: the root handler
RootHandler0 ==
  JsonResponse(200, NoHeaders,
    [message |-> "CDN Backend API is running!",
     endpoints |-> [upload |-> "POST /api/upload",
                    getFile |-> "GET /api/file/:id",
                    fileInfo |-> "GET /api/info/:id",
                    listFiles |-> "GET /api/files",
                    health |-> "GET /api/health"]])

\* the routes part_000 registers: it has no delete route
Routes0 ==
  { [method |-> "GET", path |-> "/api/health"],
    [method |-> "GET", path |-> "/api"],
    [method |-> "POST", path |-> "/api/upload"],
    [method |-> "GET", path |-> "/api/file/:fileId"],
    [method |-> "GET", path |-> "/api/info/:fileId"],
    [method |-> "GET", path |-> "/api/files"] }

\* part_000 registers neither an error middleware nor a 404 handler: Express's
\* final handler answers with the status of the error, 500 when it has none,
\* and 404 when no route matched
FinalHandler(error) ==
  IF error = NoError THEN FinalResponse(404, NoHeaders)
  ELSE IF error.status >= 400 THEN FinalResponse(error.status, NoHeaders)
  ELSE FinalResponse(500, NoHeaders)

\* ------------------------------------------------------------ state
VARIABLES
  variant,       \* which of the two sources is deployed: "index" or "part_000"
  fileDatabase,  \* the Map of the stored records
  last,          \* the request handled last, the error passed to next() and
                 \* the response the service gave
  inflight,      \* one response body res.send is still writing, followed
                 \* chunk by chunk to its end (bodies in flight share nothing,
                 \* so one of them is followed at a time)
  uploadedAs,    \* history: per id, the files the successful uploads that
                 \* returned it carried, since the last DELETE of the id
  latestAs,      \* history: per id, the file of the latest such upload
  deleted        \* history: the ids a DELETE removed and no upload returned since

vars == <<variant, fileDatabase, last, inflight, uploadedAs, latestAs, deleted>>

Idle == [open |-> FALSE, fileId |-> "", body |-> <<>>, rcvd |-> <<>>]

NoRequest ==
  [method |-> "", path |-> "", fileId |-> "", multipart |-> FALSE,
   fields |-> {}]

NoResponse ==
  [status |-> 0, kind |-> "none", headers |-> NoHeaders, json |-> <<>>,
   body |-> <<>>]

\* what is kept of a request: its line, its id parameter, the field names of
\* its multipart file parts
Request(line, fileId, body) ==
  [method |-> line.method, path |-> line.path, fileId |-> fileId,
   multipart |-> body.ctype = "multipart/form-data",
   fields |-> { body.parts[k].fieldname : k \in DOMAIN body.parts }]

\* the ids a request line can carry in its path
ParamIds(line) ==
  IF line.path \in {"/api/file/:fileId", "/api/info/:fileId"}
  THEN Ids ELSE {""}

Init ==
  /\ variant \in {"index", "part_000"}
  /\ fileDatabase = <<>>
  /\ last = [req |-> NoRequest, err |-> NoError, resp |-> NoResponse]
  /\ inflight = Idle
  /\ uploadedAs = [i \in Ids |-> {}]
  /\ latestAs = [i \in Ids |-> None]
  /\ deleted = {}

NoFileSent == [buffer |-> <<>>, mimetype |-> ""]

\* the file a multipart body offers under the field "file", as the client sent it
SentFile(reqFile) ==
  IF reqFile = None THEN NoFileSent
  ELSE [buffer |-> reqFile[1].buffer, mimetype |-> reqFile[1].mimetype]

\* The service answers req with resp and leaves the store as db.  The history
\* follows what the client saw: a 200 of the upload names the id it drew and
\* sent is the file it carried, a 200 of DELETE removes the id.
Answer(req, err, resp, db, sent) ==
  /\ last' = [req |-> req, err |-> err, resp |-> resp]
  /\ fileDatabase' = db
  /\ IF req.method = "POST" /\ req.path = "/api/upload" /\ resp.status = 200
     THEN LET id == resp.json.data.id
          IN /\ uploadedAs' = [uploadedAs EXCEPT ![id] = @ \cup {sent}]
             /\ latestAs' = [latestAs EXCEPT ![id] = Some(sent)]
             /\ deleted' = deleted \ {id}
     ELSE IF req.method = "DELETE" /\ req.path = "/api/file/:fileId"
             /\ resp.status = 200
     THEN /\ uploadedAs' = [uploadedAs EXCEPT ![req.fileId] = {}]
          /\ latestAs' = [latestAs EXCEPT ![req.fileId] = None]
          /\ deleted' = deleted \cup {req.fileId}
     ELSE UNCHANGED <<uploadedAs, latestAs, deleted>>
  /\ UNCHANGED variant

\* ------------------------------------------------------------ the socket
\* a write that looks the record up again for every chunk
BodyChunkFromStore(p, db) ==
  LET fileInfo == MapGet(db, p.fileId)
  IN IF fileInfo # None /\ Len(p.rcvd) < Len(fileInfo[1].buffer)
     THEN Some(fileInfo[1].buffer[Len(p.rcvd) + 1])
     ELSE None

\* the next chunk the socket writes of the body in flight, None at its end:
\* the socket drains the Buffer res.send was given, whatever db has become
BodyChunk(p, db) ==
  IF Len(p.rcvd) < Len(p.body) THEN Some(p.body[Len(p.rcvd) + 1]) ELSE None

\* res.send(buffer) starts to write the body; it is followed when no other is
StartSend(fileId, resp) ==
  IF resp.kind = "buffer" /\ ~inflight.open
  THEN inflight' = [open |-> TRUE, fileId |-> fileId, body |-> resp.body,
                    rcvd |-> <<>>]
  ELSE UNCHANGED inflight

\* one more chunk of the body in flight reaches the client
Transmit ==
  /\ inflight.open
  /\ BodyChunk(inflight, fileDatabase) # None
  /\ inflight' = [inflight EXCEPT !.rcvd =
       Append(@, BodyChunk(inflight, fileDatabase)[1])]
  /\ UNCHANGED <<variant, fileDatabase, last, uploadedAs, latestAs, deleted>>

\* the body is written, the response ends
Finish ==
  /\ inflight.open
  /\ BodyChunk(inflight, fileDatabase) = None
  /\ inflight' = Idle
  /\ UNCHANGED <<variant, fileDatabase, last, uploadedAs, latestAs, deleted>>

\* ------------------------------------------------------------ index.js, actions
\* index.js 9-10, 236-252: a body parser fails; the CORS middleware, which is
\* registered after the parsers, is skipped and the error middleware answers
BodyParserError(line, fileId, body) ==
  /\ variant = "index"
  /\ BodyParsers(body) # NoError
  /\ Answer(Request(line, fileId, body), BodyParsers(body),
            ErrorMiddleware(BodyParsers(body), NoHeaders), fileDatabase,
            NoFileSent)
  /\ UNCHANGED inflight

\* GET /api/health
Health(now) ==
  /\ variant = "index"
  /\ BodyParsers(EmptyBody) = NoError
  /\ Answer(Request([method |-> "GET", path |-> "/api/health"], "", EmptyBody),
            NoError, HealthHandler(now, CorsHeaders), fileDatabase, NoFileSent)
  /\ UNCHANGED inflight

\* GET /api
Root ==
  /\ variant = "index"
  /\ BodyParsers(EmptyBody) = NoError
  /\ Answer(Request([method |-> "GET", path |-> "/api"], "", EmptyBody),
            NoError, RootHandler(CorsHeaders), fileDatabase, NoFileSent)
  /\ UNCHANGED inflight

\* POST /api/upload: multer, then the handler or the error middleware; the
\* handler reads the request's headers, draws the id and reads the clock
Upload(body) ==
  /\ variant = "index"
  /\ BodyParsers(body) = NoError
  /\ LET m == UploadSingle(body, FileSizeLimit, Some(FilesLimit))
         req == Request([method |-> "POST", path |-> "/api/upload"], "", body)
     IN IF m.err # NoError
        THEN Answer(req, m.err, ErrorMiddleware(m.err, CorsHeaders),
                    fileDatabase, NoFileSent)
        ELSE \E headers \in HeaderSets, fileId \in Ids, now \in Timestamps :
               LET r == UploadHandler(m.file, headers, fileId, now,
                                      fileDatabase, CorsHeaders)
               IN Answer(req, NoError, r.resp, r.db, SentFile(m.file))
  /\ UNCHANGED inflight

\* GET /api/file/:fileId
GetFile(fileId) ==
  /\ variant = "index"
  /\ BodyParsers(EmptyBody) = NoError
  /\ LET resp == FileHandler(fileId, fileDatabase, CorsHeaders)
     IN /\ Answer(Request([method |-> "GET", path |-> "/api/file/:fileId"],
                          fileId, EmptyBody),
                  NoError, resp, fileDatabase, NoFileSent)
        /\ StartSend(fileId, resp)

\* GET /api/info/:fileId
GetInfo(fileId) ==
  /\ variant = "index"
  /\ BodyParsers(EmptyBody) = NoError
  /\ Answer(Request([method |-> "GET", path |-> "/api/info/:fileId"],
                    fileId, EmptyBody),
            NoError, InfoHandler(fileId, fileDatabase, CorsHeaders),
            fileDatabase, NoFileSent)
  /\ UNCHANGED inflight

\* GET /api/files
ListFiles ==
  /\ variant = "index"
  /\ BodyParsers(EmptyBody) = NoError
  /\ Answer(Request([method |-> "GET", path |-> "/api/files"], "", EmptyBody),
            NoError, FilesHandler(fileDatabase, CorsHeaders), fileDatabase,
            NoFileSent)
  /\ UNCHANGED inflight

\* DELETE /api/file/:fileId
DeleteFile(fileId) ==
  /\ variant = "index"
  /\ BodyParsers(EmptyBody) = NoError
  /\ LET r == DeleteHandler(fileId, fileDatabase, CorsHeaders)
     IN Answer(Request([method |-> "DELETE", path |-> "/api/file/:fileId"],
                       fileId, EmptyBody),
               NoError, r.resp, r.db, NoFileSent)
  /\ UNCHANGED inflight

\* a request no route matches
NotFound(line, fileId, body) ==
  /\ variant = "index"
  /\ line \notin Routes
  /\ BodyParsers(body) = NoError
  /\ Answer(Request(line, fileId, body), NoError, NotFoundHandler(CorsHeaders),
            fileDatabase, NoFileSent)
  /\ UNCHANGED inflight

\* ------------------------------------------------------------ part_000, actions
\* part_000 11: express.json() with body-parser's default limit
BodyParsers0(body) == JsonParser(body, BodyLimit0)

\* a body parser fails, or no route matches: Express's final handler answers
Final0(line, fileId, body) ==
  /\ variant = "part_000"
  /\ BodyParsers0(body) # NoError \/ line \notin Routes0
  /\ Answer(Request(line, fileId, body), BodyParsers0(body),
            FinalHandler(BodyParsers0(body)), fileDatabase, NoFileSent)
  /\ UNCHANGED inflight

\* POST /api/upload: multer, then the handler or the final handler
Upload0(body) ==
  /\ variant = "part_000"
  /\ BodyParsers0(body) = NoError
  /\ LET m == UploadSingle(body, FileSizeLimit0, None)
         req == Request([method |-> "POST", path |-> "/api/upload"], "", body)
     IN IF m.err # NoError
        THEN Answer(req, m.err, FinalHandler(m.err), fileDatabase, NoFileSent)
        ELSE \E headers \in HeaderSets, fileId \in Ids, now \in Timestamps :
               LET r == UploadHandler0(m.file, headers, fileId, now,
                                       fileDatabase)
               IN Answer(req, NoError, r.resp, r.db, SentFile(m.file))
  /\ UNCHANGED inflight

\* GET /api/file/:fileId
GetFile0(fileId) ==
  /\ variant = "part_000"
  /\ BodyParsers0(EmptyBody) = NoError
  /\ LET resp == FileHandler0(fileId, fileDatabase)
     IN /\ Answer(Request([method |-> "GET", path |-> "/api/file/:fileId"],
                          fileId, EmptyBody),
                  NoError, resp, fileDatabase, NoFileSent)
        /\ StartSend(fileId, resp)

\* GET /api/info/:fileId
GetInfo0(fileId) ==
  /\ variant = "part_000"
  /\ BodyParsers0(EmptyBody) = NoError
  /\ Answer(Request([method |-> "GET", path |-> "/api/info/:fileId"],
                    fileId, EmptyBody),
            NoError, InfoHandler0(fileId, fileDatabase), fileDatabase,
            NoFileSent)
  /\ UNCHANGED inflight

\* GET /api/files
ListFiles0 ==
  /\ variant = "part_000"
  /\ BodyParsers0(EmptyBody) = NoError
  /\ Answer(Request([method |-> "GET", path |-> "/api/files"], "", EmptyBody),
            NoError, FilesHandler0(fileDatabase), fileDatabase, NoFileSent)
  /\ UNCHANGED inflight

\* GET /api/health
Health0(now) ==
  /\ variant = "part_000"
  /\ BodyParsers0(EmptyBody) = NoError
  /\ Answer(Request([method |-> "GET", path |-> "/api/health"], "", EmptyBody),
            NoError, HealthHandler0(now, fileDatabase), fileDatabase,
            NoFileSent)
  /\ UNCHANGED inflight

\* GET /api
Root0 ==
  /\ variant = "part_000"
  /\ BodyParsers0(EmptyBody) = NoError
  /\ Answer(Request([method |-> "GET", path |-> "/api"], "", EmptyBody),
            NoError, RootHandler0, fileDatabase, NoFileSent)
  /\ UNCHANGED inflight

\* ------------------------------------------------------------ specification
Next ==
  \/ \E line \in RequestLines : \E fileId \in ParamIds(line) :
       \E body \in BodiesOf(line) : BodyParserError(line, fileId, body)
  \/ \E now \in Timestamps : Health(now)
  \/ Root
  \/ \E body \in Bodies : Upload(body)
  \/ \E fileId \in Ids : GetFile(fileId)
  \/ \E fileId \in Ids : GetInfo(fileId)
  \/ ListFiles
  \/ \E fileId \in Ids : DeleteFile(fileId)
  \/ \E line \in RequestLines : \E fileId \in ParamIds(line) :
       \E body \in BodiesOf(line) : NotFound(line, fileId, body)
  \/ \E line \in RequestLines : \E fileId \in ParamIds(line) :
       \E body \in BodiesOf(line) : Final0(line, fileId, body)
  \/ \E body \in Bodies : Upload0(body)
  \/ \E fileId \in Ids : GetFile0(fileId)
  \/ \E fileId \in Ids : GetInfo0(fileId)
  \/ ListFiles0
  \/ \E now \in Timestamps : Health0(now)
  \/ Root0
  \/ Transmit
  \/ Finish

Spec == Init /\ [][Next]_vars

\* ------------------------------------------------------------ properties
\* a step that handles a request; the other steps only move the body in flight
Handled == inflight' = inflight \/ (~inflight.open /\ inflight'.open)

IsRequest(req, method, path) == req.method = method /\ req.path = path

GetsFile(req) == IsRequest(req, "GET", "/api/file/:fileId")
GetsInfo(req) == IsRequest(req, "GET", "/api/info/:fileId")
GetsFiles(req) == IsRequest(req, "GET", "/api/files")
Deletes(req) == IsRequest(req, "DELETE", "/api/file/:fileId")
Uploads(req) == IsRequest(req, "POST", "/api/upload")

NotFoundAnswer(resp) == resp.status = 404 /\ ErrorCode(resp) = "FILE_NOT_FOUND"

\* the response serves the file as it was uploaded
Serves(resp, file) ==
  /\ resp.status = 200
  /\ resp.kind = "buffer"
  /\ resp.body = file.buffer
  /\ resp.headers["Content-Type"] = file.mimetype
  /\ resp.headers["Content-Length"] = BufLen(file.buffer)

\* the ids successful uploads returned, less those successful deletes removed
Live == { i \in Ids : latestAs[i] # None }

IsPrefix(s, t) == Len(s) <= Len(t) /\ \A k \in DOMAIN s : s[k] = t[k]

\* C1, as claimed: GET /file/i serves the bytes, the mimetype and the length of
\* every successful upload that returned i and that no DELETE of i followed,
\* whatever other uploads came in between.
C1_AsClaimed ==
  GetsFile(last.req) =>
    \A file \in uploadedAs[last.req.fileId] : Serves(last.resp, file)

\* C1, amended: GET /file/i answers 200 with the bytes, the mimetype as
\* Content-Type and the length as Content-Length of the latest successful
\* upload that returned i, when no DELETE of i followed it.
C1_RoundTrip ==
  GetsFile(last.req) /\ latestAs[last.req.fileId] # None =>
    Serves(last.resp, latestAs[last.req.fileId][1])

C1_Witness ==
  /\ GetsFile(last.req)
  /\ latestAs[last.req.fileId] # None
  /\ Serves(last.resp, latestAs[last.req.fileId][1])
  /\ Cardinality(uploadedAs[last.req.fileId]) = 2
  /\ Len(fileDatabase) = 2

\* C2: in index.js, GET /file/:id, GET /info/:id and DELETE /file/:id of an id
\* that is no key of the store answer 404 FILE_NOT_FOUND and leave the store
\* as it is.
C2_AbsentIsNotFound ==
  [][ /\ Handled
      /\ variant = "index"
      /\ last'.err = NoError
      /\ GetsFile(last'.req) \/ GetsInfo(last'.req) \/ Deletes(last'.req)
      /\ ~MapHas(fileDatabase, last'.req.fileId)
      => NotFoundAnswer(last'.resp) /\ fileDatabase' = fileDatabase ]_vars

C2_Witness ==
  /\ variant = "index"
  /\ GetsInfo(last.req)
  /\ NotFoundAnswer(last.resp)
  /\ ~MapHas(fileDatabase, last.req.fileId)
  /\ fileDatabase # <<>>

\* C3: in index.js, DELETE /file/:id of a stored id answers 200 and removes the
\* record; as long as no upload returns the id again, DELETE, GET /file and
\* GET /info of it answer 404 FILE_NOT_FOUND.
C3_DeleteTwice ==
  [][ Handled /\ variant = "index" /\ last'.err = NoError =>
        /\ Deletes(last'.req) /\ MapHas(fileDatabase, last'.req.fileId) =>
             /\ last'.resp.status = 200
             /\ last'.resp.json.success
             /\ ~MapHas(fileDatabase', last'.req.fileId)
             /\ last'.req.fileId \in deleted'
        /\ /\ GetsFile(last'.req) \/ GetsInfo(last'.req) \/ Deletes(last'.req)
           /\ last'.req.fileId \in deleted
           => NotFoundAnswer(last'.resp) ]_vars

C3_Witness ==
  /\ variant = "index"
  /\ Deletes(last.req)
  /\ NotFoundAnswer(last.resp)
  /\ last.req.fileId \in deleted

\* C4, as claimed: the success bodies of POST /upload, GET /info/:id and
\* GET /files carry no payload (buffer) member in any record summary.
C4_NoPayload ==
  last.resp.status = 200 /\ last.resp.kind = "json" =>
    /\ Uploads(last.req) \/ GetsInfo(last.req) =>
         "buffer" \notin DOMAIN last.resp.json.data
    /\ GetsFiles(last.req) =>
         \A k \in DOMAIN last.resp.json.data :
           "buffer" \notin DOMAIN last.resp.json.data[k]

\* C5, as claimed, of index.js: a POST /upload whose multipart body has no
\* file under the field "file" is answered 400 NO_FILE and the store keeps its
\* entries.
C5_NoFile ==
  [][ /\ Handled
      /\ variant = "index"
      /\ Uploads(last'.req)
      /\ last'.req.multipart
      /\ "file" \notin last'.req.fields
      => /\ last'.resp.status = 400
         /\ ErrorCode(last'.resp) = "NO_FILE"
         /\ Len(fileDatabase') = Len(fileDatabase) ]_vars

\* C6, as claimed: in index.js a request rejected for its size, by the body
\* parsers' limit or by multer's fileSize limit, is answered 400
\* FILE_TOO_LARGE and the store keeps its entries.
C6_TooLarge ==
  [][ /\ Handled
      /\ variant = "index"
      /\ last'.err.code \in {"entity.too.large", "LIMIT_FILE_SIZE"}
      => /\ last'.resp.status = 400
         /\ ErrorCode(last'.resp) = "FILE_TOO_LARGE"
         /\ Len(fileDatabase') = Len(fileDatabase) ]_vars

\* C7, as claimed: every response carries Access-Control-Allow-Origin: * and
\* the allowed-methods and allowed-headers headers.
C7_Cors ==
  last.resp.kind # "none" =>
    \A h \in DOMAIN CorsHeaders :
      h \in DOMAIN last.resp.headers /\ last.resp.headers[h] = CorsHeaders[h]

\* the step is a successful upload that returned id
UploadReturned(id) ==
  /\ Uploads(last'.req)
  /\ last'.resp.status = 200
  /\ last'.resp.json.data.id = id

\* the step is a successful DELETE of id
DeleteRemoved(id) ==
  /\ Deletes(last'.req)
  /\ last'.resp.status = 200
  /\ last'.req.fileId = id
  /\ ~MapHas(fileDatabase', id)

\* C8, as claimed: a stored record keeps every field until a DELETE removes
\* it; no upload changes an existing record.
C8_AsClaimed ==
  [][ \A k \in DOMAIN fileDatabase :
        \/ MapGet(fileDatabase', fileDatabase[k].id) = Some(fileDatabase[k])
        \/ Handled /\ DeleteRemoved(fileDatabase[k].id) ]_vars

\* C8, amended: a stored record keeps every field until a DELETE removes it or
\* a successful upload that drew the same id replaces it; reads, lists, failed
\* requests and uploads that drew another id change no stored record.
C8_Immutable ==
  [][ \A k \in DOMAIN fileDatabase :
        \/ MapGet(fileDatabase', fileDatabase[k].id) = Some(fileDatabase[k])
        \/ Handled /\ DeleteRemoved(fileDatabase[k].id)
        \/ /\ Handled
           /\ UploadReturned(fileDatabase[k].id)
           /\ MapHas(fileDatabase', fileDatabase[k].id) ]_vars

C8_Witness ==
  /\ Uploads(last.req)
  /\ last.resp.status = 200
  /\ Len(fileDatabase) = 2
  /\ fileDatabase[1].id # last.resp.json.data.id
  /\ fileDatabase[1].buffer # fileDatabase[2].buffer

\* C9: in index.js, GET /files lists exactly the ids successful uploads
\* returned less those successful deletes removed, and its count is the length
\* of the list; only a successful upload and a successful DELETE change the
\* store.
C9_Lifecycle ==
  [][ Handled /\ variant = "index" =>
        /\ MapKeys(fileDatabase') = Live'
        /\ GetsFiles(last'.req) /\ last'.resp.status = 200 =>
             /\ { last'.resp.json.data[k].id : k \in DOMAIN last'.resp.json.data }
                  = Live'
             /\ last'.resp.json.count = Len(last'.resp.json.data)
             /\ last'.resp.json.count = Cardinality(Live')
        /\ ~(Uploads(last'.req) /\ last'.resp.status = 200)
           /\ ~(Deletes(last'.req) /\ last'.resp.status = 200)
           => fileDatabase' = fileDatabase ]_vars

C9_Witness ==
  /\ variant = "index"
  /\ GetsFiles(last.req)
  /\ last.resp.status = 200
  /\ last.resp.json.count = 1
  /\ deleted # {}

\* C10: in index.js no read is torn.  GET /file/:id answers 404 FILE_NOT_FOUND
\* or 200 with the whole payload of the stored record; the body in flight is
\* at every moment a prefix of that payload and ends as the whole payload,
\* whatever DELETE or upload is handled while it is written; GET /info and
\* GET /files describe whole records of the store.
C10_NoTornRead ==
  [][ variant = "index" =>
        /\ Handled /\ last'.err = NoError /\ GetsFile(last'.req) =>
             \/ NotFoundAnswer(last'.resp)
                  /\ ~MapHas(fileDatabase, last'.req.fileId)
             \/ /\ MapHas(fileDatabase, last'.req.fileId)
                /\ Serves(last'.resp,
                     [buffer |-> MapGet(fileDatabase, last'.req.fileId)[1].buffer,
                      mimetype |->
                        MapGet(fileDatabase, last'.req.fileId)[1].mimetype])
                /\ last'.resp.body \in
                     { f.buffer : f \in uploadedAs[last'.req.fileId] }
        /\ Handled /\ GetsInfo(last'.req) /\ last'.resp.status = 200 =>
             \E k \in DOMAIN fileDatabase :
               last'.resp.json.data = WithoutBuffer(fileDatabase[k])
        /\ Handled /\ GetsFiles(last'.req) /\ last'.resp.status = 200 =>
             \A j \in DOMAIN last'.resp.json.data :
               last'.resp.json.data[j] = WithoutBuffer(fileDatabase[j])
        /\ inflight'.open => IsPrefix(inflight'.rcvd, inflight'.body)
        /\ inflight.open /\ ~inflight'.open => inflight.rcvd = inflight.body
        /\ ~inflight.open /\ inflight'.open => inflight'.body = last'.resp.body
    ]_vars

C10_Witness ==
  /\ variant = "index"
  /\ inflight.open
  /\ inflight.rcvd = inflight.body
  /\ Len(inflight.body) = 2
  /\ ~MapHas(fileDatabase, inflight.fileId)

====
